---- MODULE Spec2Model ----
(***************************************************************************)
(* The quota/cooldown rate limiter of internal/stealth/rate_limit.go       *)
(* (type RateLimiter) as a state machine.  Time is counted in whole        *)
(* seconds; every call reads the clock once (the several time.Now() reads  *)
(* of one call fall into the same second).                                 *)
(***************************************************************************)
EXTENDS Integers, Sequences, FiniteSets, TLC

\* ------------------------------------------------------------------ bounds

\* total number of history entries the unrestricted caller may pile up
MaxHist == 4

\* number of bursts of CooldownAfter actions the disciplined caller may fit
\* into the instants of its clock
MaxBursts == 3

\* the caller that records as soon as it is allowed stops waiting here (25h)
MaxTime == 90000

\* total number of history entries the threads of the concurrent caller may
\* pile up
MaxThreadHist == 2
\* history entries of all action types together in a burst of records
MaxBurstHist == 8
\* cfg.Limits.MaxConnectionsPerDay
MaxConnectionsPerDay == 2
\* connection requests sent before the program is started once more
MaxRequests == 3
\* profiles in one search result
MaxProfiles == 2

\* ------------------------------------------------------- program constants

\* time.Second, time.Minute, time.Hour in seconds
Second == 1
Minute == 60
Hour == 3600
Day == 24 * Hour

\* time.Time{}: the zero time, before every reading of the clock
ZeroTime == 0

\* limits as NewRateLimiter fills the map
limits ==
  [ profile_view |->
      [HourlyMax |-> 40, DailyMax |-> 200, MinInterval |-> 15 * Second,
       CooldownAfter |-> 10, CooldownDuration |-> 5 * Minute],
    connection_request |->
      [HourlyMax |-> 10, DailyMax |-> 50, MinInterval |-> 90 * Second,
       CooldownAfter |-> 5, CooldownDuration |-> 10 * Minute],
    message |->
      [HourlyMax |-> 15, DailyMax |-> 80, MinInterval |-> 60 * Second,
       CooldownAfter |-> 7, CooldownDuration |-> 8 * Minute],
    search |->
      [HourlyMax |-> 30, DailyMax |-> 150, MinInterval |-> 20 * Second,
       CooldownAfter |-> 8, CooldownDuration |-> 3 * Minute],
    scroll |->
      [HourlyMax |-> 200, DailyMax |-> 1000, MinInterval |-> 2 * Second,
       CooldownAfter |-> 20, CooldownDuration |-> 2 * Minute],
    like |->
      [HourlyMax |-> 25, DailyMax |-> 120, MinInterval |-> 30 * Second,
       CooldownAfter |-> 8, CooldownDuration |-> 5 * Minute],
    comment |->
      [HourlyMax |-> 8, DailyMax |-> 30, MinInterval |-> 120 * Second,
       CooldownAfter |-> 3, CooldownDuration |-> 15 * Minute],
    page_view |->
      [HourlyMax |-> 100, DailyMax |-> 500, MinInterval |-> 5 * Second,
       CooldownAfter |-> 15, CooldownDuration |-> 3 * Minute] ]

\* the action types that have an entry in the limits map
Configured == DOMAIN limits

\* the action types the callers of the model use: two configured ones (the
\* two with the smallest caps) and one that has no entry in the limits map
ActionTypes == {"comment", "connection_request", "follow"}

Exists(actionType) == actionType \in Configured

\* the threads of a concurrent caller
Threads == {"a", "b"}

\* a thread that is in no call; p is its copy of the latest answer
Idle(p) == [phase |-> "idle", op |-> "", kind |-> "", at |-> 0, permit |-> p]

VARIABLES
  now,                 \* the reading of time.Now()
  actionHistory,       \* rl.actionHistory: per action type, the timestamps
  cooldownUntil,       \* rl.cooldownUntil
  consecutiveActions,  \* rl.consecutiveActions
  focus,               \* the action type a disciplined caller works on ("" for
                       \* the caller that calls anything at any time)
  pace,                \* how that caller lets time pass: "free" (to any later
                       \* instant of its clock), "eager" (it waits only
                       \* while denied, until the action is allowed again)
                       \* or "paired" (as "free", and every call is also
                       \* made on a limiter that never removes an entry)
  pc,                  \* per thread of a concurrent caller: the call it is
                       \* in (blocked on rl.mu or inside the critical
                       \* section) and its copy of the answer of its latest
                       \* CanPerformAction; the holders of rl.mu are the
                       \* threads that are inside
  permit,              \* the caller's copy of the answer of its latest
                       \* CanPerformAction(focus), cleared when it records
  ret,                 \* the call that returned last and what it returned
  run,                 \* the action types recorded since the latest record
                       \* made with counter 0 and no cooldown active
  runEnd,              \* the instant of the latest successful RecordAction
  nRecords,            \* successful RecordAction calls since construction
  reference,           \* the histories of the limiter that never removes an
                       \* entry, in a "paired" run
  waiter,              \* the call of WaitForBusinessHours in progress: its
                       \* arguments, the instant of the call and the
                       \* instants it slept until
  prog,                \* main: where it is and cfg.Stealth.BusinessHoursOnly
  ledger,              \* the profile URLs of the rows of connection_requests
                       \* with today's date
  requests,            \* the connection requests that were sent: profile URL
                       \* and instant, in the order of sending
  job                  \* the locals of SendConnectionRequests while it runs

\* rl.hourlyResetTime and rl.dailyResetTime are written by NewRateLimiter,
\* RecordAction and ResetDaily and read by nothing that decides or returns
\* anything; they are left out.
rlVars == <<actionHistory, cooldownUntil, consecutiveActions>>
ghostVars == <<run, runEnd, nRecords, reference>>
appVars == <<waiter, prog, ledger, requests, job>>
callerVars == <<focus, pace, pc, waiter, prog, ledger, requests, job>>
vars == <<now, actionHistory, cooldownUntil, consecutiveActions, focus, pace,
          pc, permit, ret, run, runEnd, nRecords, reference, waiter, prog,
          ledger, requests, job>>

\* ------------------------------------------------------------ time.Time

Before(t, u) == t < u
After(t, u) == t > u

\* ------------------------------------------------------------ reasons

CooldownText == "In cooldown period. Wait"
HourlyText == "Hourly limit reached"
DailyText == "Daily limit reached"
TooSoonText == "Too soon. Wait"

NoReason == [text |-> "", a |-> 0, b |-> 0]
CooldownReason(remaining) == [text |-> CooldownText, a |-> remaining, b |-> 0]
HourlyReason(count, max) == [text |-> HourlyText, a |-> count, b |-> max]
DailyReason(count, max) == [text |-> DailyText, a |-> count, b |-> max]
TooSoonReason(remaining) == [text |-> TooSoonText, a |-> remaining, b |-> 0]

\* a call and its return values (err is TRUE for a non-nil error; value is
\* what a query returns; panic is TRUE when the call did not return but
\* panicked)
Ret(op, actionType, allowed, reason, err) ==
  [op |-> op, kind |-> actionType, allowed |-> allowed, reason |-> reason,
   err |-> err, value |-> 0, panic |-> FALSE]

\* ------------------------------------------------------------ helpers

\* countActionsInWindow: scan from the newest entry backwards, stop at the
\* first entry that is not after the cutoff
RECURSIVE ScanBack(_, _, _)
ScanBack(history, i, cutoff) ==
  IF i = 0 THEN 0
  ELSE IF After(history[i], cutoff)
       THEN 1 + ScanBack(history, i - 1, cutoff)
       ELSE 0

countActionsInWindow(history, window, t) ==
  IF Len(history) = 0 THEN 0
  ELSE ScanBack(history, Len(history), t - window)

\* cleanHistory with the 1h window as its cutoff
cleanHistoryHour(history, t) ==
  IF Len(history) = 0 THEN history
  ELSE SelectSeq(history, LAMBDA x : After(x, t - Hour))

\* cleanHistory: keep, in order, the entries after now - 24h
cleanHistory(history, t) ==
  IF Len(history) = 0 THEN history
  ELSE SelectSeq(history, LAMBDA x : After(x, t - Day))

\* the cooldown test with its operands exchanged
InCooldownSwapped(t, cu) == Before(cu, t)

\* the cooldown test that opens CanPerformAction
InCooldown(t, cu) == Before(t, cu)

\* a missing limit answered with a denial
ClosedDefault == [allowed |-> FALSE, reason |-> NoReason]

\* the answer of CanPerformAction for an action type without a limit
OpenDefault == [allowed |-> TRUE, reason |-> NoReason]

\* the hourly test with > in place of >=
HourlyReachedLate(hourlyCount, limit) == hourlyCount > limit.HourlyMax

\* the hourly test against the daily cap
HourlyReachedDaily(hourlyCount, limit) == hourlyCount >= limit.DailyMax

\* the three limit tests of CanPerformAction
HourlyReached(hourlyCount, limit) == hourlyCount >= limit.HourlyMax
DailyReached(dailyCount, limit) == dailyCount >= limit.DailyMax
\* the minimum-interval test with <= in place of <
TooSoonInclusive(history, limit, t) ==
  /\ Len(history) > 0
  /\ t - history[Len(history)] <= limit.MinInterval

\* the minimum-interval test against the oldest entry instead of the newest
TooSoonOldest(history, limit, t) ==
  /\ Len(history) > 0
  /\ t - history[1] < limit.MinInterval

TooSoon(history, limit, t) ==
  /\ Len(history) > 0
  /\ t - history[Len(history)] < limit.MinInterval

\* the (allowed, reason) pair CanPerformAction computes at instant t from the
\* cooldown end cu and the cleaned history of the action type
Decide(actionType, history, cu, t) ==
  IF InCooldown(t, cu)
  THEN [allowed |-> FALSE, reason |-> CooldownReason(cu - t)]
  ELSE IF ~Exists(actionType)
  THEN OpenDefault
  ELSE LET limit == limits[actionType]
           hourlyCount == countActionsInWindow(history, Hour, t)
           dailyCount == countActionsInWindow(history, Day, t)
       IN IF HourlyReached(hourlyCount, limit)
          THEN [allowed |-> FALSE,
                reason |-> HourlyReason(hourlyCount, limit.HourlyMax)]
          ELSE IF DailyReached(dailyCount, limit)
          THEN [allowed |-> FALSE,
                reason |-> DailyReason(dailyCount, limit.DailyMax)]
          ELSE IF TooSoon(history, limit, t)
          THEN [allowed |-> FALSE,
                reason |-> TooSoonReason(limit.MinInterval
                                          - (t - history[Len(history)]))]
          ELSE [allowed |-> TRUE, reason |-> NoReason]

\* rl.actionHistory as a CanPerformAction(actionType) called at instant t
\* leaves it: the cooldown return and the missing-limit return come before
\* the cleaning
HistoryAfterCan(actionType, t) ==
  IF InCooldown(t, cooldownUntil) \/ ~Exists(actionType)
  THEN actionHistory
  ELSE [actionHistory EXCEPT ![actionType] = cleanHistory(@, t)]

\* what CanPerformAction(actionType) returns when called at instant t
CanResult(actionType, t) ==
  Decide(actionType,
         IF Exists(actionType) THEN HistoryAfterCan(actionType, t)[actionType]
         ELSE <<>>,
         cooldownUntil, t)

\* what RecordAction(actionType) returns: TRUE for the error
RecordError(actionType) == ~Exists(actionType)

RECURSIVE SumLen(_, _)
SumLen(h, S) ==
  IF S = {} THEN 0
  ELSE LET k == CHOOSE x \in S : TRUE IN Len(h[k]) + SumLen(h, S \ {k})

TotalEntries == SumLen(actionHistory, Configured)

\* ------------------------------------------------------------ operations

\* no call of WaitForBusinessHours, no run of SendConnectionRequests
NoWaiter == [phase |-> "idle", startHour |-> 0, endHour |-> 0, calledAt |-> 0,
             sleeps |-> <<>>]

NoJob == [active |-> FALSE, profiles |-> <<>>, i |-> 0, remaining |-> 0,
          sent |-> 0]

\* the rest of the program before main has done anything
InitApp ==
  /\ waiter = NoWaiter
  /\ prog = [phase |-> "off", BusinessHoursOnly |-> FALSE]
  /\ ledger = {}
  /\ requests = <<>>
  /\ job = NoJob

InitLimiter ==
  /\ now = 0
  /\ InitApp
  /\ pc = [w \in Threads |-> Idle(FALSE)]
  /\ actionHistory = [k \in Configured |-> <<>>]
  /\ cooldownUntil = ZeroTime
  /\ consecutiveActions = 0
  /\ permit = FALSE
  /\ ret = Ret("NewRateLimiter", "", FALSE, NoReason, FALSE)
  /\ run = <<>>
  /\ runEnd = 0
  /\ nRecords = 0
  /\ reference = [k \in Configured |-> <<>>]

CanPerformAction(actionType) ==
  /\ actionHistory' = HistoryAfterCan(actionType, now)
  /\ permit' = IF actionType = focus THEN CanResult(actionType, now).allowed
               ELSE permit
  /\ ret' = LET r == CanResult(actionType, now)
            IN Ret("CanPerformAction", actionType, r.allowed, r.reason, FALSE)
  /\ UNCHANGED <<now, cooldownUntil, consecutiveActions, callerVars, ghostVars>>

\* the consecutive-actions test with > in place of >=
CooldownTriggeredLate(count, limit) == count > limit.CooldownAfter

\* the consecutive-actions test of RecordAction
CooldownTriggered(count, limit) == count >= limit.CooldownAfter

\* the cooldown end computed from the wrong field of the limit
CooldownEndShort(t, limit) == t + limit.MinInterval

\* the cooldown end RecordAction sets when the test succeeds
CooldownEnd(t, limit) == t + limit.CooldownDuration

\* the error return, taken after the counter was incremented
RecordUnknownCounted(actionType) ==
  /\ ret' = Ret("RecordAction", actionType, FALSE, NoReason, TRUE)
  /\ consecutiveActions' = consecutiveActions + 1
  /\ UNCHANGED <<now, actionHistory, cooldownUntil, callerVars, permit,
                 ghostVars>>

\* RecordAction for an action type without a limit: the error return
RecordUnknown(actionType) ==
  /\ ret' = Ret("RecordAction", actionType, FALSE, NoReason, TRUE)
  /\ UNCHANGED <<now, rlVars, callerVars, permit, ghostVars>>

RecordAction(actionType) ==
  IF RecordError(actionType)
  THEN RecordUnknown(actionType)
  ELSE LET limit == limits[actionType]
       IN /\ actionHistory' =
               [actionHistory EXCEPT ![actionType] = Append(@, now)]
          /\ IF CooldownTriggered(consecutiveActions + 1, limit)
             THEN /\ cooldownUntil' = CooldownEnd(now, limit)
                  /\ consecutiveActions' = 0
             ELSE /\ cooldownUntil' = cooldownUntil
                  /\ consecutiveActions' = consecutiveActions + 1
          /\ permit' = IF actionType = focus THEN FALSE ELSE permit
          /\ run' = IF consecutiveActions = 0 /\ ~InCooldown(now, cooldownUntil)
                    THEN <<actionType>>
                    ELSE Append(run, actionType)
          /\ runEnd' = now
          /\ nRecords' = nRecords + 1
          /\ reference' = IF pace = "paired"
                          THEN [reference EXCEPT ![actionType] = Append(@, now)]
                          ELSE reference
          /\ ret' = Ret("RecordAction", actionType, FALSE, NoReason, FALSE)
          /\ UNCHANGED <<now, callerVars>>

\* the reset that clears the cooldown end and forgets the counter
ResetCooldownKeepsCounter ==
  /\ cooldownUntil' = ZeroTime
  /\ consecutiveActions' = consecutiveActions
  /\ run' = <<>>
  /\ ret' = Ret("ResetCooldown", "", FALSE, NoReason, FALSE)
  /\ UNCHANGED <<now, actionHistory, callerVars, permit, runEnd, nRecords,
                 reference>>

ResetCooldown ==
  /\ cooldownUntil' = ZeroTime
  /\ consecutiveActions' = 0
  /\ run' = <<>>
  /\ ret' = Ret("ResetCooldown", "", FALSE, NoReason, FALSE)
  /\ UNCHANGED <<now, actionHistory, callerVars, permit, runEnd, nRecords,
                 reference>>

\* the reset that empties every history
ResetDailyClears ==
  /\ actionHistory' = [k \in Configured |-> <<>>]
  /\ ret' = Ret("ResetDaily", "", FALSE, NoReason, FALSE)
  /\ UNCHANGED <<now, cooldownUntil, consecutiveActions, callerVars, permit,
                 ghostVars>>

ResetDaily ==
  /\ actionHistory' = [k \in Configured |-> cleanHistory(actionHistory[k], now)]
  /\ ret' = Ret("ResetDaily", "", FALSE, NoReason, FALSE)
  /\ UNCHANGED <<now, cooldownUntil, consecutiveActions, callerVars, permit,
                 ghostVars>>

\* ------------------------------------------------------------ queries

\* time.Until(rl.cooldownUntil) behind the test time.Now().Before(...), as
\* GetCooldownRemaining and GetActionStats compute it
RemainingCooldown(t, cu) == IF InCooldown(t, cu) THEN cu - t ELSE 0

\* GetWaitTime(actionType) at instant t on the histories hist and the
\* cooldown end cu
GetWaitTimeAt(actionType, hist, cu, t) ==
  IF Before(t, cu) THEN cu - t
  ELSE IF ~Exists(actionType) THEN 0
  ELSE LET limit == limits[actionType]
           history == hist[actionType]
       IN IF Len(history) = 0 THEN 0
          ELSE LET lastAction == history[Len(history)]
                   elapsed == t - lastAction
               IN IF elapsed < limit.MinInterval
                  THEN limit.MinInterval - elapsed
                  ELSE 0

GetWaitTimeResult(actionType, t) ==
  GetWaitTimeAt(actionType, actionHistory, cooldownUntil, t)

\* the map of GetActionStats with the counts exchanged
GetActionStatsSwapped(actionType, t) ==
  LET limit == limits[actionType]
      history == actionHistory[actionType]
      hourlyCount == countActionsInWindow(history, Day, t)
      dailyCount == countActionsInWindow(history, Hour, t)
  IN [action_type |-> actionType,
      hourly_count |-> hourlyCount,
      hourly_limit |-> limit.HourlyMax,
      hourly_remaining |-> limit.HourlyMax - hourlyCount,
      daily_count |-> dailyCount,
      daily_limit |-> limit.DailyMax,
      daily_remaining |-> limit.DailyMax - dailyCount,
      in_cooldown |-> Before(t, cooldownUntil),
      cooldown_remaining |-> RemainingCooldown(t, cooldownUntil)]

\* the map GetActionStats(actionType) builds at instant t for an action type
\* that has a limit: the counts are taken on the history as it is stored
GetActionStatsResult(actionType, t) ==
  LET limit == limits[actionType]
      history == actionHistory[actionType]
      hourlyCount == countActionsInWindow(history, Hour, t)
      dailyCount == countActionsInWindow(history, Day, t)
  IN [action_type |-> actionType,
      hourly_count |-> hourlyCount,
      hourly_limit |-> limit.HourlyMax,
      hourly_remaining |-> limit.HourlyMax - hourlyCount,
      daily_count |-> dailyCount,
      daily_limit |-> limit.DailyMax,
      daily_remaining |-> limit.DailyMax - dailyCount,
      in_cooldown |-> Before(t, cooldownUntil),
      cooldown_remaining |-> RemainingCooldown(t, cooldownUntil)]

\* rl.limits[actionType] is nil for an action type without a limit, and
\* GetActionStats reads limit.HourlyMax through it
NilLimit(actionType) == ~Exists(actionType)

\* a query returns a value and changes nothing
Query(op, actionType, value) ==
  /\ ret' = [Ret(op, actionType, FALSE, NoReason, FALSE) EXCEPT !.value = value]
  /\ UNCHANGED <<now, rlVars, callerVars, permit, ghostVars>>

GetWaitTime(actionType) ==
  Query("GetWaitTime", actionType, GetWaitTimeResult(actionType, now))

\* the nil dereference: the call panics (the deferred RUnlock still runs)
GetActionStatsPanic(actionType) ==
  /\ ret' = [Ret("GetActionStats", actionType, FALSE, NoReason, FALSE)
               EXCEPT !.panic = TRUE]
  /\ UNCHANGED <<now, rlVars, callerVars, permit, ghostVars>>

GetActionStats(actionType) ==
  IF NilLimit(actionType)
  THEN GetActionStatsPanic(actionType)
  ELSE Query("GetActionStats", actionType,
             GetActionStatsResult(actionType, now))

\* GetAllStats: GetActionStats for every key of rl.limits
GetAllStats ==
  Query("GetAllStats", "",
        [actionType \in Configured |-> GetActionStatsResult(actionType, now)])

IsInCooldown == Query("IsInCooldown", "", Before(now, cooldownUntil))

GetCooldownRemaining ==
  Query("GetCooldownRemaining", "", RemainingCooldown(now, cooldownUntil))

\* ------------------------------------------------------------ rl.mu

\* every operation taking the read lock
LockModeAllShared(op) == "RLock"

\* the first statement of each operation: rl.mu.Lock() or rl.mu.RLock()
LockMode(op) ==
  IF op \in {"CanPerformAction", "RecordAction", "ResetCooldown", "ResetDaily"}
  THEN "Lock"
  ELSE "RLock"

Inside(w) == pc[w].phase = "inside"

\* sync.RWMutex: Lock returns when no other thread holds the lock, RLock when
\* no other thread holds it for writing
Available(w, mode) ==
  \A v \in Threads \ {w} :
    Inside(v) => (mode = "RLock" /\ LockMode(pc[v].op) = "RLock")

\* thread w calls the operation and blocks on the lock (at: when a
\* RecordAction was called)
Call(w, op, actionType) ==
  /\ pc[w].phase = "idle"
  /\ pc' = [pc EXCEPT ![w] = [phase |-> "blocked", op |-> op,
                               kind |-> actionType,
                               at |-> IF op = "RecordAction" THEN now ELSE 0,
                               permit |-> pc[w].permit]]
  /\ UNCHANGED <<now, rlVars, focus, pace, permit, ret, ghostVars, appVars>>

\* thread w gets the lock
Acquire(w) ==
  /\ pc[w].phase = "blocked"
  /\ Available(w, LockMode(pc[w].op))
  /\ pc' = [pc EXCEPT ![w].phase = "inside"]
  /\ UNCHANGED <<now, rlVars, focus, pace, permit, ret, ghostVars, appVars>>

\* the timestamp taken when the call was made, before the lock was held
RecordStampAtCall(w) == pc[w].at

\* now := time.Now() in RecordAction, read while the lock is held
RecordStamp(w) == now

\* what the body of the call of thread w does when it runs at instant now:
\* the state it leaves and what it returns
Outcome(w) ==
  LET op == pc[w].op
      k == pc[w].kind
      Same(r) == [hist |-> actionHistory, cu |-> cooldownUntil,
                  count |-> consecutiveActions, ret |-> r]
      Value(v) == [Ret(op, k, FALSE, NoReason, FALSE) EXCEPT !.value = v]
  IN CASE op = "CanPerformAction" ->
            LET r == CanResult(k, now)
            IN [hist |-> HistoryAfterCan(k, now), cu |-> cooldownUntil,
                count |-> consecutiveActions,
                ret |-> Ret(op, k, r.allowed, r.reason, FALSE)]
       [] op = "RecordAction" ->
            IF RecordError(k)
            THEN Same(Ret(op, k, FALSE, NoReason, TRUE))
            ELSE LET limit == limits[k]
                     t == RecordStamp(w)
                     hit == CooldownTriggered(consecutiveActions + 1, limit)
                 IN [hist |-> [actionHistory EXCEPT ![k] = Append(@, t)],
                     cu |-> IF hit THEN CooldownEnd(t, limit)
                            ELSE cooldownUntil,
                     count |-> IF hit THEN 0 ELSE consecutiveActions + 1,
                     ret |-> Ret(op, k, FALSE, NoReason, FALSE)]
       [] op = "ResetCooldown" ->
            [hist |-> actionHistory, cu |-> ZeroTime, count |-> 0,
             ret |-> Ret(op, "", FALSE, NoReason, FALSE)]
       [] op = "ResetDaily" ->
            [hist |-> [j \in Configured |-> cleanHistory(actionHistory[j], now)],
             cu |-> cooldownUntil, count |-> consecutiveActions,
             ret |-> Ret(op, "", FALSE, NoReason, FALSE)]
       [] op = "GetWaitTime" -> Same(Value(GetWaitTimeResult(k, now)))
       [] op = "GetActionStats" ->
            IF NilLimit(k)
            THEN Same([Ret(op, k, FALSE, NoReason, FALSE) EXCEPT !.panic = TRUE])
            ELSE Same(Value(GetActionStatsResult(k, now)))
       [] op = "IsInCooldown" -> Same(Value(Before(now, cooldownUntil)))
       [] op = "GetCooldownRemaining" ->
            Same(Value(RemainingCooldown(now, cooldownUntil)))

\* thread w runs the body of its call and the deferred unlock
Leave(w) ==
  /\ Inside(w)
  /\ LET o == Outcome(w)
         op == pc[w].op
         recorded == op = "RecordAction" /\ ~o.ret.err
     IN /\ actionHistory' = o.hist
        /\ cooldownUntil' = o.cu
        /\ consecutiveActions' = o.count
        /\ ret' = o.ret
        /\ pc' = [pc EXCEPT ![w] =
                    Idle(IF pc[w].kind # focus THEN pc[w].permit
                         ELSE IF op = "CanPerformAction" THEN o.ret.allowed
                         ELSE IF recorded THEN FALSE
                         ELSE pc[w].permit)]
        /\ run' = IF recorded
                  THEN IF consecutiveActions = 0
                          /\ ~InCooldown(now, cooldownUntil)
                       THEN <<pc[w].kind>>
                       ELSE Append(run, pc[w].kind)
                  ELSE IF op = "ResetCooldown" THEN <<>> ELSE run
        /\ runEnd' = IF recorded THEN now ELSE runEnd
        /\ nRecords' = IF recorded THEN nRecords + 1 ELSE nRecords
  /\ UNCHANGED <<now, focus, pace, permit, reference, appVars>>

\* ------------------------------------------------------------ the clock

\* the instants at which the caller that calls anything makes its calls: the
\* start, the ends of the cooldowns of the two action types, the second
\* before the later one, and the end of the 24h window
FreeInstants ==
  {0, limits["connection_request"].CooldownDuration,
   limits["comment"].CooldownDuration - 1, limits["comment"].CooldownDuration,
   Day}

\* the instants at which a disciplined caller of action type k makes its
\* calls: up to MaxBursts bursts of CooldownAfter actions MinInterval apart
\* (as many as start below the hourly cap), each burst starting when the
\* cooldown of the one before ends; the end of each cooldown and of the 1h
\* window of the first entry, and the second before each; the end of the 24h
\* window of the first entry
BurstInstants(k) ==
  LET limit == limits[k]
      period == (limit.CooldownAfter - 1) * limit.MinInterval
                  + limit.CooldownDuration
      Bursts == {b \in 0..(MaxBursts - 1) :
                   b * limit.CooldownAfter < limit.HourlyMax}
      Slots == {b * period + i * limit.MinInterval :
                  b \in Bursts, i \in 0..(limit.CooldownAfter - 1)}
      Marks == {(b + 1) * period : b \in Bursts} \cup {Hour}
  IN Slots \cup Marks \cup {m - 1 : m \in Marks} \cup {Day}

Instants == IF focus = "" THEN FreeInstants ELSE BurstInstants(focus)

Tick ==
  /\ pace = "free"
  /\ \E t \in Instants : After(t, now) /\ now' = t
  /\ ret' = Ret("", "", FALSE, NoReason, FALSE)
  /\ UNCHANGED <<rlVars, callerVars, permit, ghostVars>>

\* the instants after now at which an answer of CanPerformAction(k) can
\* change: the end of the cooldown, and every entry leaving the minimum
\* interval, the 1h window or the 24h window
Changes(k) ==
  LET h == actionHistory[k]
  IN {t \in {cooldownUntil}
              \cup {h[i] + d : i \in 1..Len(h),
                               d \in {limits[k].MinInterval, Hour, Day}} :
        After(t, now)}

\* the earliest instant of S at which CanPerformAction(k) allows (-1: none)
RECURSIVE FirstAllowed(_, _)
FirstAllowed(k, S) ==
  IF S = {} THEN -1
  ELSE LET t == CHOOSE x \in S : \A y \in S : x <= y
       IN IF CanResult(k, t).allowed THEN t ELSE FirstAllowed(k, S \ {t})

\* the eager caller sleeps only while its action is denied, and wakes up when
\* the action is allowed again or one second earlier
Wait ==
  /\ pace = "eager"
  /\ ~permit
  /\ ~CanResult(focus, now).allowed
  /\ LET t == FirstAllowed(focus, Changes(focus))
     IN /\ After(t, now)
        /\ t <= MaxTime
        /\ now' \in {u \in {t - 1, t} : After(u, now)}
  /\ ret' = Ret("", "", FALSE, NoReason, FALSE)
  /\ UNCHANGED <<rlVars, callerVars, permit, ghostVars>>

\* ------------------------------------------------------------ callers

\* a caller that may call anything at any time
Init == InitLimiter /\ focus = "" /\ pace = "free"

\* the histories of the model hold MaxHist entries at most
BoundedRecord(actionType) == TotalEntries < MaxHist /\ RecordAction(actionType)

Next ==
  \/ \E k \in ActionTypes : CanPerformAction(k)
  \/ \E k \in ActionTypes : BoundedRecord(k)
  \/ ResetCooldown
  \/ ResetDaily
  \/ Tick

Spec == Init /\ [][Next]_vars

\* a single caller that works on one action type and records it only after
\* CanPerformAction allowed it
InitHonest ==
  /\ InitLimiter
  /\ focus \in {"comment", "connection_request"}
  /\ pace \in {"free", "eager"}

HonestRecord == permit /\ RecordAction(focus)

NextHonest ==
  \/ CanPerformAction(focus)
  \/ HonestRecord
  \/ ResetDaily
  \/ Tick
  \/ Wait

SpecHonest == InitHonest /\ [][NextHonest]_vars

\* a single caller that also queries the limiter; it works on one action type
\* that has a limit and on one that has none
ObservedTypes == {"comment", "follow"}

\* the instants of its clock: those of the caller that calls anything, the
\* end of the 1h window and the second after the end of the 24h window
ObserveInstants == FreeInstants \cup {Hour, Day + 1}

Pass ==
  /\ \E t \in ObserveInstants : After(t, now) /\ now' = t
  /\ ret' = Ret("", "", FALSE, NoReason, FALSE)
  /\ UNCHANGED <<rlVars, callerVars, permit, ghostVars>>

NextObserve ==
  \/ \E k \in ObservedTypes : CanPerformAction(k)
  \/ \E k \in ObservedTypes : BoundedRecord(k)
  \/ ResetCooldown
  \/ ResetDaily
  \/ \E k \in ObservedTypes : GetWaitTime(k)
  \/ \E k \in ObservedTypes : GetActionStats(k)
  \/ GetAllStats
  \/ IsInCooldown
  \/ GetCooldownRemaining
  \/ Pass

SpecObserve == Init /\ [][NextObserve]_vars

\* the calls the threads of the concurrent caller make; GetAllStats holds
\* no lock of its own, it is the GetActionStats calls it makes
ThreadCalls ==
  {<<"RecordAction", "comment">>, <<"RecordAction", "connection_request">>,
   <<"CanPerformAction", "comment">>, <<"GetWaitTime", "comment">>,
   <<"GetActionStats", "comment">>, <<"IsInCooldown", "">>,
   <<"GetCooldownRemaining", "">>, <<"ResetCooldown", "">>,
   <<"ResetDaily", "">>}

\* RecordAction calls that are under way
Recording == {w \in Threads : pc[w].op = "RecordAction"}

\* the histories of the concurrent caller hold MaxThreadHist entries at most
ThreadCall(w) ==
  \E c \in ThreadCalls :
    /\ c[1] = "RecordAction" =>
         TotalEntries + Cardinality(Recording) < MaxThreadHist
    /\ Call(w, c[1], c[2])

\* the instants of the clock of the concurrent caller
ThreadInstants == {0, limits["connection_request"].CooldownDuration}

ThreadTick ==
  /\ \E t \in ThreadInstants : After(t, now) /\ now' = t
  /\ UNCHANGED <<rlVars, callerVars, permit, ret, ghostVars>>

NextThreads ==
  \/ \E w \in Threads : ThreadCall(w)
  \/ \E w \in Threads : Acquire(w)
  \/ \E w \in Threads : Leave(w)
  \/ ThreadTick

SpecThreads == Init /\ [][NextThreads]_vars

\* workers that each call CanPerformAction(focus) and, when allowed,
\* RecordAction(focus), as two calls
InitRace == InitLimiter /\ focus = "comment" /\ pace = "eager"

WorkerCall(w) ==
  IF pc[w].permit
  THEN Call(w, "RecordAction", focus)
  ELSE Call(w, "CanPerformAction", focus)

\* with every worker idle and denied, the clock moves to the instant at
\* which the action is allowed again, within the first hour
RaceWait ==
  /\ \A w \in Threads : pc[w].phase = "idle" /\ ~pc[w].permit
  /\ ~CanResult(focus, now).allowed
  /\ LET t == FirstAllowed(focus, Changes(focus))
     IN /\ After(t, now)
        /\ t <= Hour
        /\ now' = t
  /\ UNCHANGED <<rlVars, callerVars, permit, ret, ghostVars>>

NextRace ==
  \/ \E w \in Threads : WorkerCall(w)
  \/ \E w \in Threads : Acquire(w)
  \/ \E w \in Threads : Leave(w)
  \/ RaceWait

SpecRace == InitRace /\ [][NextRace]_vars

\* ---- the caller of SpecObserve, with the limiter that never removes an
\* entry run alongside ----

InitPaired == InitLimiter /\ focus = "" /\ pace = "paired"

SpecPaired == InitPaired /\ [][NextObserve]_vars

\* ---- a caller that records in bursts, whatever CanPerformAction says ----

BurstRecord(actionType) ==
  TotalEntries < MaxBurstHist /\ RecordAction(actionType)

\* the clock between bursts: the ends of the two cooldowns
BurstWait ==
  /\ \E k \in ActionTypes \cap Configured :
       LET t == limits[k].CooldownDuration IN After(t, now) /\ now' = t
  /\ ret' = Ret("", "", FALSE, NoReason, FALSE)
  /\ UNCHANGED <<rlVars, callerVars, permit, ghostVars>>

NextBurst ==
  \/ \E k \in ActionTypes : BurstRecord(k)
  \/ ResetCooldown
  \/ BurstWait

SpecBurst == Init /\ [][NextBurst]_vars

\* ------------------------------------------------------------ wall clock

\* now is also the wall clock, in seconds since the midnight that begins a
\* Sunday, in the location the program runs in
Sunday == 0
Saturday == 6

HourOf(t) == (t \div Hour) % 24
MinuteOf(t) == (t \div Minute) % 60
WeekdayOf(t) == (t \div Day) % 7
Midnight(t) == t - (t % Day)

\* ------------------------------------------------------------ schedule.go

\* rand.Float64() in hundredths, rounded down
Draws == {0, 39, 40, 69, 70, 99}

\* the morning band with its last minute one later
IsBreakTimeLong(hour, minute, draw) ==
  IF hour = 12 \/ (hour = 13 /\ minute < 30) THEN draw < 70
  ELSE IF hour = 10 /\ minute <= 15 THEN draw < 40
  ELSE IF hour = 15 /\ minute < 15 THEN draw < 40
  ELSE FALSE

IsBreakTimeAt(hour, minute, draw) ==
  IF hour = 12 \/ (hour = 13 /\ minute < 30) THEN draw < 70
  ELSE IF hour = 10 /\ minute < 15 THEN draw < 40
  ELSE IF hour = 15 /\ minute < 15 THEN draw < 40
  ELSE FALSE

IsBreakTime ==
  /\ \E draw \in Draws :
       ret' = [Ret("IsBreakTime", "", FALSE, NoReason, FALSE) EXCEPT
                 !.value = [draw |-> draw,
                            break |-> IsBreakTimeAt(HourOf(now), MinuteOf(now),
                                                    draw)]]
  /\ UNCHANGED <<now, rlVars, callerVars, permit, ghostVars>>

\* ------------------------------------------------------------ timing.go

IsBusinessHoursAt(t, startHour, endHour) ==
  IF WeekdayOf(t) = Saturday \/ WeekdayOf(t) = Sunday
  THEN FALSE
  ELSE HourOf(t) >= startHour /\ HourOf(t) < endHour

\* the instant WaitForBusinessHours sleeps until when it finds, at t, that
\* these are not business hours
NextStart(t, startHour, endHour) ==
  LET today == Midnight(t) + startHour * Hour
      tomorrow == IF HourOf(t) >= endHour THEN today + 24 * Hour ELSE today
  IN IF WeekdayOf(t) = Saturday THEN tomorrow + 48 * Hour
     ELSE IF WeekdayOf(t) = Sunday THEN tomorrow + 24 * Hour
     ELSE tomorrow

\* the arguments of the calls: cfg.Stealth.WorkStartHour and WorkEndHour
Windows == {<<9, 18>>, <<0, 24>>, <<8, 9>>, <<20, 22>>}

\* the wall clock at the calls: the edges of the windows on each day of a week
WeekInstants ==
  {d * Day + h * Hour + m * Minute :
     d \in 0..6, h \in {0, 7, 9, 12, 17, 18, 19, 23}, m \in {0, 30}}

\* the program is started at some instant of the week
Arrive ==
  /\ waiter.phase \in {"idle", "returned"}
  /\ \E t \in WeekInstants : now' = t
  /\ waiter' = NoWaiter
  /\ ret' = Ret("", "", FALSE, NoReason, FALSE)
  /\ UNCHANGED <<rlVars, focus, pace, pc, prog, ledger, requests, job, permit,
                 ghostVars>>

WaitForBusinessHours(startHour, endHour) ==
  /\ waiter.phase = "idle"
  /\ waiter' = [phase |-> "looping", startHour |-> startHour,
                endHour |-> endHour, calledAt |-> now, sleeps |-> <<>>]
  /\ ret' = Ret("", "", FALSE, NoReason, FALSE)
  /\ UNCHANGED <<now, rlVars, focus, pace, pc, prog, ledger, requests, job,
                 permit, ghostVars>>

\* one test of the loop condition: return, or sleep until the next start
\* (time.Sleep returns at once if that instant is not in the future)
WaitLoop ==
  /\ waiter.phase = "looping"
  /\ IF IsBusinessHoursAt(now, waiter.startHour, waiter.endHour)
     THEN /\ waiter' = [waiter EXCEPT !.phase = "returned"]
          /\ ret' = Ret("WaitForBusinessHours", "", FALSE, NoReason, FALSE)
          /\ now' = now
     ELSE LET nextStart == NextStart(now, waiter.startHour, waiter.endHour)
          IN /\ now' = IF nextStart > now THEN nextStart ELSE now
             /\ waiter' = [waiter EXCEPT !.sleeps = Append(@, nextStart)]
             /\ ret' = ret
  /\ UNCHANGED <<rlVars, focus, pace, pc, prog, ledger, requests, job, permit,
                 ghostVars>>

NextWaiter ==
  \/ Arrive
  \/ \E w \in Windows : WaitForBusinessHours(w[1], w[2])
  \/ WaitLoop

SpecWaiter == Init /\ [][NextWaiter]_vars

\* the instant at which WaitForBusinessHours, called at t, returns
RECURSIVE WaitReturn(_, _, _)
WaitReturn(t, startHour, endHour) ==
  IF IsBusinessHoursAt(t, startHour, endHour) THEN t
  ELSE WaitReturn(NextStart(t, startHour, endHour), startHour, endHour)

\* ------------------------------------------------------------ main, connect

\* cfg.Stealth.WorkStartHour and WorkEndHour
WorkStartHour == 9
WorkEndHour == 18

\* DATE(sent_at) and DATE('now')
DateOf(t) == t \div Day

GetConnectionsCountToday ==
  Cardinality({row \in ledger : DateOf(row.at) = DateOf(now)})

IsConnectionSent(url) == \E row \in ledger : row.url = url

URLs == {"a", "b"}

\* what SearchPeople can return
Profiles == UNION {[1..n -> URLs] : n \in 1..MaxProfiles}

\* the instants at which the program is started: a Monday morning, two
\* minutes before the end of its business hours, two minutes before its
\* midnight, and the Saturday noon after it
StartInstants ==
  {Day + 9 * Hour, Day + 17 * Hour + 58 * Minute,
   Day + 23 * Hour + 58 * Minute, 6 * Day + 12 * Hour}

\* what HumanDelay, RandomBreak and the work on the page take between one
\* request and the next
StepDurations == {2 * Minute}

\* the program is started
Start ==
  /\ prog.phase = "off"
  /\ Len(requests) < MaxRequests
  /\ \E t \in StartInstants, b \in BOOLEAN :
       /\ t >= now
       /\ now' = t
       /\ prog' = [phase |-> "main", BusinessHoursOnly |-> b]
  /\ ret' = Ret("", "", FALSE, NoReason, FALSE)
  /\ UNCHANGED <<rlVars, focus, pace, pc, waiter, ledger, requests, job,
                 permit, ghostVars>>

\* main's check of the business hours
MainCheck ==
  /\ prog.phase = "main"
  /\ now' = IF /\ prog.BusinessHoursOnly
               /\ ~IsBusinessHoursAt(now, WorkStartHour, WorkEndHour)
            THEN WaitReturn(now, WorkStartHour, WorkEndHour)
            ELSE now
  /\ prog' = [prog EXCEPT !.phase = "ready"]
  /\ ret' = Ret("", "", FALSE, NoReason, FALSE)
  /\ UNCHANGED <<rlVars, focus, pace, pc, waiter, ledger, requests, job,
                 permit, ghostVars>>

\* SendConnectionRequests up to its loop
SendConnectionRequests(profiles) ==
  /\ prog.phase = "ready"
  /\ \E err \in BOOLEAN :
       LET todayCount == GetConnectionsCountToday
       IN IF err \/ todayCount >= MaxConnectionsPerDay
          THEN /\ job' = job
               /\ prog' = [prog EXCEPT !.phase = "done"]
               /\ ret' = Ret("SendConnectionRequests", "", FALSE, NoReason, TRUE)
          ELSE /\ job' = [active |-> TRUE, profiles |-> profiles, i |-> 1,
                          remaining |-> MaxConnectionsPerDay - todayCount,
                          sent |-> 0]
               /\ prog' = [prog EXCEPT !.phase = "connecting"]
               /\ ret' = Ret("", "", FALSE, NoReason, FALSE)
  /\ UNCHANGED <<now, rlVars, focus, pace, pc, waiter, ledger, requests,
                 permit, ghostVars>>

\* one test of the loop's end and, if it goes on, one pass of its body
ProcessProfile ==
  /\ job.active
  /\ IF job.i > Len(job.profiles) \/ job.sent >= job.remaining
     THEN /\ job' = NoJob
          /\ prog' = [prog EXCEPT !.phase = "done"]
          /\ ret' = Ret("SendConnectionRequests", "", FALSE, NoReason, FALSE)
          /\ UNCHANGED <<now, ledger, requests>>
     ELSE /\ prog' = prog
          /\ ret' = ret
          /\ \E checked \in BOOLEAN, clicked \in BOOLEAN, saved \in BOOLEAN,
                d \in StepDurations :
               LET url == job.profiles[job.i]
               IN IF ~checked \/ IsConnectionSent(url) \/ ~clicked
                  THEN /\ job' = [job EXCEPT !.i = @ + 1]
                       /\ UNCHANGED <<now, ledger, requests>>
                  ELSE /\ requests' =
                            Append(requests,
                                   [url |-> url, at |-> now,
                                    recorded |-> IsConnectionSent(url),
                                    gated |-> prog.BusinessHoursOnly])
                       /\ ledger' = IF saved
                                    THEN ledger \cup {[url |-> url, at |-> now]}
                                    ELSE ledger
                       /\ job' = [job EXCEPT !.i = @ + 1, !.sent = @ + 1]
                       /\ now' = now + d
  /\ UNCHANGED <<rlVars, focus, pace, pc, waiter, permit, ghostVars>>

\* the process ends
Exit ==
  /\ prog.phase = "done"
  /\ prog' = [prog EXCEPT !.phase = "off"]
  /\ ret' = Ret("", "", FALSE, NoReason, FALSE)
  /\ UNCHANGED <<now, rlVars, focus, pace, pc, waiter, ledger, requests, job,
                 permit, ghostVars>>

NextProgram ==
  \/ Start
  \/ MainCheck
  \/ \E profiles \in Profiles : SendConnectionRequests(profiles)
  \/ ProcessProfile
  \/ Exit

SpecProgram == Init /\ [][NextProgram]_vars

\* time.Duration is an int64; its arithmetic is done here at this many bits
DurationBits == 16

Pow2(n) == 2^n

\* the value of an integer as a two's complement number of DurationBits bits
Wrap(x) ==
  LET m == x % Pow2(DurationBits)
  IN IF m >= Pow2(DurationBits - 1) THEN m - Pow2(DurationBits) ELSE m

\* 1 << uint(attempt): zero once every bit is shifted out
ShiftLeft(attempt) == IF attempt >= DurationBits THEN 0 ELSE Wrap(Pow2(attempt))

\* Go's division, which truncates towards zero
Quo(a, b) == IF a >= 0 THEN a \div b ELSE -((-a) \div b)

\* the delay before the jitter is added
BackoffDelay(attempt, baseDelay, maxDelay) ==
  LET delay == Wrap(baseDelay * ShiftLeft(attempt))
  IN IF delay > maxDelay THEN maxDelay ELSE delay

\* rand.Int63n(n) panics if n <= 0 and returns a value of 0..n-1 otherwise;
\* the least, the middle and the greatest are tried
Int63n(n) == {0, n \div 2, n - 1}

Attempts == 0..(DurationBits + 1)
BaseDelays == {1, 3, 4, 8, 1000}
MaxDelays == {1, 4, 8, 1000, 4000}

ExponentialBackoff ==
  /\ \E attempt \in Attempts, baseDelay \in BaseDelays, maxDelay \in MaxDelays :
       /\ baseDelay <= maxDelay
       /\ LET delay == BackoffDelay(attempt, baseDelay, maxDelay)
              n == Quo(delay, 4)
              call == [attempt |-> attempt, baseDelay |-> baseDelay,
                       maxDelay |-> maxDelay, delay |-> delay]
              r == Ret("ExponentialBackoff", "", FALSE, NoReason, FALSE)
          IN IF n <= 0
             THEN ret' = [r EXCEPT !.panic = TRUE, !.value = call]
             ELSE \E jitter \in Int63n(n) :
                    ret' = [r EXCEPT !.value =
                              [call EXCEPT !.delay = Wrap(delay + jitter)]]
  /\ UNCHANGED <<now, rlVars, callerVars, permit, ghostVars>>

\* the wall clock of the calls of the scheduler: any minute at the edge of a
\* band of a Monday
ScheduleInstants ==
  {Day + h * Hour + m * Minute :
     h \in {9, 10, 11, 12, 13, 14, 15, 16}, m \in {0, 14, 15, 29, 30, 59}}

SetClock ==
  /\ \E t \in ScheduleInstants : now' = t
  /\ ret' = Ret("", "", FALSE, NoReason, FALSE)
  /\ UNCHANGED <<rlVars, callerVars, permit, ghostVars>>

NextSchedule ==
  \/ SetClock
  \/ IsBreakTime

SpecSchedule == Init /\ [][NextSchedule]_vars

NextBackoff == ExponentialBackoff

SpecBackoff == Init /\ [][NextBackoff]_vars

TypeOK ==
  /\ now \in Nat
  /\ cooldownUntil \in Nat
  /\ consecutiveActions \in Nat
  /\ permit \in BOOLEAN
  /\ \A k \in Configured : actionHistory[k] \in Seq(Nat)
  /\ \A k \in Configured : reference[k] \in Seq(Nat)
  /\ waiter.phase \in {"idle", "looping", "returned"}
  /\ prog.phase \in {"off", "main", "ready", "connecting", "done"}
  /\ \A row \in ledger : row.url \in URLs /\ row.at \in Nat
  /\ \A i \in DOMAIN requests : requests[i].url \in URLs
  /\ job.active \in BOOLEAN

\* ------------------------------------------------------------ properties

\* the number of entries of a history within the window that ends at t,
\* counted entry by entry
InWindow(history, window, t) ==
  Cardinality({i \in 1..Len(history) : history[i] > t - window})

\* C1: a single caller that records an action type only after
\* CanPerformAction allowed it never has more than HourlyMax entries of the
\* type in the trailing hour nor more than DailyMax in the trailing 24 hours
C1_CapsHold ==
  \A k \in Configured :
    /\ InWindow(actionHistory[k], Hour, now) <= limits[k].HourlyMax
    /\ InWindow(actionHistory[k], Day, now) <= limits[k].DailyMax

\* the disciplined caller has filled both the 1h and the 24h quota of its
\* action type
C1_Witness ==
  /\ focus \in Configured
  /\ InWindow(actionHistory[focus], Hour, now) = limits[focus].HourlyMax
  /\ InWindow(actionHistory[focus], Day, now) = limits[focus].DailyMax
  /\ nRecords >= limits[focus].DailyMax

\* the action types of the model that have no limit
Unlimited == ActionTypes \ Configured

\* now and the later instants at which the answers are probed: the end of the
\* cooldown, the ends of the intervals and windows that start now, at the
\* latest record or at the oldest entry of a history, and the second before
\* and after each
Ahead ==
  LET Starts == {now, runEnd}
                  \cup {actionHistory[k][1] :
                          k \in {j \in Configured : actionHistory[j] # <<>>}}
      Spans == {Hour, Day}
                 \cup {limits[k].MinInterval : k \in ActionTypes \cap Configured}
                 \cup {limits[k].CooldownDuration :
                         k \in ActionTypes \cap Configured}
      Marks == {now, cooldownUntil} \cup {s + d : s \in Starts, d \in Spans}
  IN {t \in Marks \cup {m - 1 : m \in Marks} \cup {m + 1 : m \in Marks} :
        t >= now}

\* C2: at every instant before the cooldown end CanPerformAction denies every
\* action type, configured or not, whatever the histories are
C2_CooldownDenies ==
  /\ \A t \in Ahead :
       t < cooldownUntil =>
         \A k \in ActionTypes \cup Configured : ~CanResult(k, t).allowed
  /\ (ret.op = "CanPerformAction" /\ now < cooldownUntil) => ~ret.allowed

\* a call for an action type with an empty history was denied in a cooldown
C2_Witness ==
  /\ now < cooldownUntil
  /\ ret.op = "CanPerformAction"
  /\ ret.kind = "connection_request"
  /\ actionHistory["connection_request"] = <<>>
  /\ ~ret.allowed

\* C4 as stated: a CanPerformAction call leaves every history, the cooldown
\* end and the consecutive counter as they were
C4_Original ==
  [][ret'.op = "CanPerformAction" => UNCHANGED rlVars]_vars

\* the entries of a history that are less than 24h old at t, in order
RECURSIVE Young(_, _)
Young(history, t) ==
  IF history = <<>> THEN <<>>
  ELSE IF t - Head(history) < Day
       THEN <<Head(history)>> \o Young(Tail(history), t)
       ELSE Young(Tail(history), t)

\* C4 amended: a CanPerformAction call leaves the cooldown end, the counter
\* and the histories of the other action types as they were; from the history
\* of its own action type it drops the entries 24h old or older (when no
\* cooldown is active and the type has a limit) and nothing else, so that a
\* second call at the same instant changes nothing
C4_OnlyPrunes ==
  [][ret'.op = "CanPerformAction" =>
       /\ cooldownUntil' = cooldownUntil
       /\ consecutiveActions' = consecutiveActions
       /\ \A j \in Configured :
            actionHistory'[j] =
              IF j = ret'.kind /\ ~(now < cooldownUntil)
              THEN Young(actionHistory[j], now)
              ELSE actionHistory[j]
       /\ \A j \in Configured :
            Young(actionHistory'[j], now) = Young(actionHistory[j], now)
       /\ (ret'.kind \in Configured /\ ~(now < cooldownUntil)) =>
            cleanHistory(actionHistory'[ret'.kind], now)
              = actionHistory'[ret'.kind]]_vars

\* a CanPerformAction call has dropped an old entry of its action type while
\* another action type still holds an entry of that age
C4_Witness ==
  /\ ret.op = "CanPerformAction"
  /\ ret.kind \in Configured
  /\ nRecords > TotalEntries
  /\ \E j \in Configured \ {ret.kind} :
       \E i \in 1..Len(actionHistory[j]) : now - actionHistory[j][i] >= Day

\* C5 as stated: an action type without a limit is allowed, with an empty
\* reason, in every state
C5_Original ==
  \A k \in Unlimited :
    /\ CanResult(k, now).allowed
    /\ CanResult(k, now).reason.text = ""

\* C5 amended: an action type without a limit is allowed with an empty reason
\* whenever no cooldown is active, and denied with the cooldown reason while
\* one is
C5_OpenOutsideCooldown ==
  /\ \A k \in Unlimited :
       \A t \in Ahead :
         LET r == CanResult(k, t)
         IN IF t < cooldownUntil
            THEN ~r.allowed /\ r.reason.text = CooldownText
            ELSE r.allowed /\ r.reason.text = ""
  /\ (ret.op = "CanPerformAction" /\ ret.kind \in Unlimited) =>
       (ret.allowed <=> ~(now < cooldownUntil))

\* the action type without a limit was allowed at an instant at which a
\* configured one is denied by its own limits
C5_Witness ==
  /\ ret.op = "CanPerformAction"
  /\ ret.kind \in Unlimited
  /\ ret.allowed
  /\ ~(now < cooldownUntil)
  /\ ~CanResult("comment", now).allowed

\* C6: RecordAction for an action type without a limit returns an error and
\* leaves the histories, the counter and the cooldown end as they were
C6_UnknownRejected ==
  [][(ret'.op = "RecordAction" /\ ret'.kind \in Unlimited) =>
       (ret'.err /\ UNCHANGED rlVars)]_vars

\* the error was returned by a limiter that holds entries and a counter
C6_Witness ==
  /\ ret.op = "RecordAction"
  /\ ret.kind \in Unlimited
  /\ ret.err
  /\ TotalEntries > 0
  /\ consecutiveActions > 0

\* C7: a RecordAction for a configured action type succeeds, appends now to
\* the history of that type only, and either counts one more consecutive
\* action or, when the count reaches CooldownAfter, starts the cooldown at
\* now + CooldownDuration and clears the counter
C7_RecordEffect ==
  [][(ret'.op = "RecordAction" /\ ret'.kind \in Configured) =>
       LET k == ret'.kind
       IN /\ ~ret'.err
          /\ actionHistory'[k] = actionHistory[k] \o <<now>>
          /\ \A j \in Configured \ {k} : actionHistory'[j] = actionHistory[j]
          /\ IF consecutiveActions + 1 >= limits[k].CooldownAfter
             THEN /\ cooldownUntil' = now + limits[k].CooldownDuration
                  /\ consecutiveActions' = 0
             ELSE /\ cooldownUntil' = cooldownUntil
                  /\ consecutiveActions' = consecutiveActions + 1]_vars

\* a record made at the instant of the entry before it, which CanPerformAction
\* would have denied, succeeded and started the cooldown
C7_Witness ==
  /\ ret.op = "RecordAction"
  /\ ~ret.err
  /\ LET h == actionHistory[ret.kind]
     IN /\ Len(h) >= 2
        /\ h[Len(h)] = now
        /\ h[Len(h) - 1] = now
  /\ consecutiveActions = 0
  /\ cooldownUntil = now + limits[ret.kind].CooldownDuration

\* the action type of the latest record completes a run of as many records
\* as its CooldownAfter, begun with counter 0 and no cooldown active
RunComplete ==
  /\ run # <<>>
  /\ Len(run) = limits[run[Len(run)]].CooldownAfter

\* every action type is denied from now until d seconds after the latest
\* record
DeniedUntil(d) ==
  \A j \in ActionTypes :
    \A t \in Ahead : t < runEnd + d => ~CanResult(j, t).allowed

\* C3 as stated: after CooldownAfter(k) records of any mix of action types,
\* the last one of type k, every action type is denied until CooldownDuration(k)
\* after the last record, and the counter is zero
C3_Original ==
  RunComplete =>
    /\ consecutiveActions = 0
    /\ DeniedUntil(limits[run[Len(run)]].CooldownDuration)

\* C3 amended: the same for a mix of action types none of which has a smaller
\* CooldownAfter than k
C3_CooldownAfterRun ==
  (/\ RunComplete
   /\ \A i \in 1..Len(run) :
        limits[run[i]].CooldownAfter >= limits[run[Len(run)]].CooldownAfter)
  => /\ consecutiveActions = 0
     /\ DeniedUntil(limits[run[Len(run)]].CooldownDuration)

\* a run of two connection requests and a comment has started the cooldown
\* of the comment, and a call made before its end was denied
C3_Witness ==
  /\ run = <<"connection_request", "connection_request", "comment">>
  /\ runEnd < now
  /\ now < runEnd + limits["comment"].CooldownDuration
  /\ ret.op = "CanPerformAction"
  /\ ~ret.allowed

\* the decision of CanPerformAction(k) at t as the four checks define it,
\* on the history as it is stored and with the windows counted entry by entry
Reference(k, t) ==
  LET h == actionHistory[k]
      limit == limits[k]
  IN IF t < cooldownUntil THEN [allowed |-> FALSE, text |-> CooldownText]
     ELSE IF InWindow(h, Hour, t) >= limit.HourlyMax
     THEN [allowed |-> FALSE, text |-> HourlyText]
     ELSE IF InWindow(h, Day, t) >= limit.DailyMax
     THEN [allowed |-> FALSE, text |-> DailyText]
     ELSE IF h # <<>> /\ t - h[Len(h)] < limit.MinInterval
     THEN [allowed |-> FALSE, text |-> TooSoonText]
     ELSE [allowed |-> TRUE, text |-> ""]

\* now and the later instants at which one of the four checks of k changes
\* its answer: the end of the cooldown, the newest entry + MinInterval, the
\* oldest entry and the entries that fill the hourly and the daily cap + 1h
\* and + 24h; and the second before and after each
Edges(k) ==
  LET h == actionHistory[k]
      limit == limits[k]
      n == Len(h)
      Filling == {i \in {1, n - limit.HourlyMax + 1, n - limit.DailyMax + 1} :
                    i >= 1 /\ i <= n}
      Marks == {now, cooldownUntil}
                 \cup {h[i] + limit.MinInterval : i \in {n} \ {0}}
                 \cup {h[i] + Hour : i \in Filling}
                 \cup {h[i] + Day : i \in Filling}
  IN {t \in Marks \cup {m - 1 : m \in Marks} \cup {m + 1 : m \in Marks} :
        t >= now}

\* C8: for a configured action type CanPerformAction answers as the checks
\* cooldown, hourly cap, daily cap, minimum interval decide in this order: the
\* reason is that of the first check that fails, and the answer is allowed
\* with an empty reason exactly when none fails
C8_MatchesReference ==
  /\ \A k \in ActionTypes \cap Configured :
       \A t \in Edges(k) :
         LET r == CanResult(k, t)
             ref == Reference(k, t)
         IN /\ r.allowed = ref.allowed
            /\ r.reason.text = ref.text
  /\ (ret.op = "CanPerformAction" /\ ret.kind \in Configured) =>
       /\ ret.allowed = Reference(ret.kind, now).allowed
       /\ ret.reason.text = Reference(ret.kind, now).text

\* a call was denied for the hourly cap at an instant at which the minimum
\* interval since the newest entry had not elapsed either
C8_Witness ==
  /\ ret.op = "CanPerformAction"
  /\ ret.kind = focus
  /\ ret.reason.text = HourlyText
  /\ actionHistory[focus] # <<>>
  /\ now - actionHistory[focus][Len(actionHistory[focus])]
       < limits[focus].MinInterval

\* C9: after the CooldownAfter-th record of a fresh limiter whose caller
\* records one action type only, each time it is allowed, CanPerformAction
\* denies with the cooldown reason until CooldownDuration after that record
\* and the cooldown is no reason for a denial from then on
C9_CooldownAfterBurst ==
  (focus \in Configured /\ nRecords = limits[focus].CooldownAfter) =>
    \A t \in Ahead :
      LET r == CanResult(focus, t)
          end == runEnd + limits[focus].CooldownDuration
      IN IF t < end
         THEN ~r.allowed /\ r.reason = CooldownReason(end - t)
         ELSE r.reason.text # CooldownText

\* connection requests recorded at 0, 90, 180, 270 and 360 seconds, and a call
\* at 959 seconds denied for the cooldown that ends at 960
C9_Witness ==
  /\ focus = "connection_request"
  /\ actionHistory[focus] = <<0, 90, 180, 270, 360>>
  /\ now = 959
  /\ cooldownUntil = 960
  /\ ret.op = "CanPerformAction"
  /\ ret.reason = CooldownReason(1)

\* C10: two consecutive entries of the history of an action type that is
\* recorded only after CanPerformAction allowed it are MinInterval apart or
\* more
C10_MinIntervalKept ==
  \A k \in Configured :
    \A i \in 1..(Len(actionHistory[k]) - 1) :
      actionHistory[k][i + 1] - actionHistory[k][i] >= limits[k].MinInterval

\* the caller has recorded two actions exactly MinInterval apart and a third
\* one later
C10_Witness ==
  /\ focus \in Configured
  /\ Len(actionHistory[focus]) >= 3
  /\ actionHistory[focus][2] - actionHistory[focus][1]
       = limits[focus].MinInterval

\* what the disciplined caller relies on: its permit is still good at the
\* instant at which it records
PermitStillGood == permit => CanResult(focus, now).allowed

\* the larger of two durations
Larger(a, b) == IF a >= b THEN a ELSE b

\* the time left at t until MinInterval has elapsed since the newest entry of
\* the action type (0 without a limit or an entry)
RemainingInterval(actionType, hist, t) ==
  IF ~Exists(actionType) \/ hist[actionType] = <<>> THEN 0
  ELSE LET h == hist[actionType]
       IN Larger(0, limits[actionType].MinInterval - (t - h[Len(h)]))

\* C14: GetWaitTime is zero when no cooldown is active and the action type
\* has no entry or its MinInterval has elapsed, and otherwise the larger of
\* the remaining cooldown and the remaining minimum interval
C14_Original ==
  \A k \in ObservedTypes :
    GetWaitTimeResult(k, now) =
      Larger(RemainingCooldown(now, cooldownUntil),
             RemainingInterval(k, actionHistory, now))

\* C15: while nothing is recorded or reset, GetWaitTime is never negative,
\* does not grow as time advances, shrinks while it is positive and stays
\* zero once it is zero
C15_Original ==
  [][(ret'.op \notin {"RecordAction", "ResetCooldown", "ResetDaily"}) =>
       \A k \in ObservedTypes :
         LET before == GetWaitTimeAt(k, actionHistory, cooldownUntil, now)
             after == GetWaitTimeAt(k, actionHistory', cooldownUntil', now')
         IN /\ before >= 0 /\ after >= 0
            /\ after <= before
            /\ (now' > now /\ before > 0) => after < before
            /\ before = 0 => after = 0]_vars

\* C16: right after a CanPerformAction for an action type with a limit that
\* got past the cooldown test, the history of that type holds the entries
\* that lie within the trailing 24h, in their order, and no older one; right
\* after ResetDaily this is so for every action type
C16_PrunedAfterCall ==
  [][LET Pruned(k) ==
           /\ \A i \in 1..Len(actionHistory'[k]) :
                now - actionHistory'[k][i] < Day
           /\ actionHistory'[k] = Young(actionHistory[k], now)
     IN /\ (/\ ret'.op = "CanPerformAction"
            /\ ret'.kind \in Configured
            /\ ~(now < cooldownUntil)) => Pruned(ret'.kind)
        /\ ret'.op = "ResetDaily" => \A k \in Configured : Pruned(k)]_vars

\* a CanPerformAction call has dropped the entry exactly 24h old and one
\* older, and kept a younger one
C16_Witness ==
  /\ ret.op = "CanPerformAction"
  /\ ret.kind = "comment"
  /\ now = Day + 1
  /\ nRecords = 3
  /\ actionHistory["comment"] = <<Hour>>

C18_ResetCooldownEffect ==
  [][ret'.op = "ResetCooldown" =>
       /\ ~InCooldown(now', cooldownUntil')
       /\ ~InCooldown(now' + Day, cooldownUntil')
       /\ consecutiveActions' = 0
       /\ actionHistory' = actionHistory
       /\ \A k \in ActionTypes \cap Configured :
            LET h == actionHistory'[k]
                limit == limits[k]
                r == Decide(k, cleanHistory(h, now'), cooldownUntil', now')
            IN r.allowed <=>
                 /\ InWindow(h, Hour, now') < limit.HourlyMax
                 /\ InWindow(h, Day, now') < limit.DailyMax
                 /\ (h = <<>> \/ now' - h[Len(h)] >= limit.MinInterval)
       /\ \A k \in ActionTypes \ Configured :
            Decide(k, <<>>, cooldownUntil', now').allowed]_vars

\* ResetCooldown has ended the cooldown that the third comment started, and
\* the comment is still denied, for its minimum interval
C18_Witness ==
  /\ ret.op = "ResetCooldown"
  /\ nRecords = limits["comment"].CooldownAfter
  /\ Len(actionHistory["comment"]) = nRecords
  /\ now < runEnd + limits["comment"].MinInterval
  /\ CanResult("comment", now).reason.text = TooSoonText

\* C19: GetActionStats for an action type with a limit changes nothing and
\* reports the hourly and the daily count that CanPerformAction uses at that
\* instant, the limits less these counts as the remaining quotas, and the
\* cooldown flag, with a positive remaining time, exactly when
\* CanPerformAction denies for the cooldown
C19_StatsConsistent ==
  [][(ret'.op = "GetActionStats" /\ ret'.kind \in Configured) =>
       LET k == ret'.kind
           v == ret'.value
           pruned == cleanHistory(actionHistory[k], now)
           denied == Decide(k, pruned, cooldownUntil, now)
       IN /\ ~ret'.panic
          /\ UNCHANGED <<now, rlVars>>
          /\ v.hourly_count = countActionsInWindow(pruned, Hour, now)
          /\ v.daily_count = countActionsInWindow(pruned, Day, now)
          /\ v.hourly_count = InWindow(actionHistory[k], Hour, now)
          /\ v.daily_count = InWindow(actionHistory[k], Day, now)
          /\ v.hourly_remaining = limits[k].HourlyMax - v.hourly_count
          /\ v.daily_remaining = limits[k].DailyMax - v.daily_count
          /\ v.in_cooldown <=> denied.reason.text = CooldownText
          /\ v.in_cooldown <=> v.cooldown_remaining > 0
          /\ v.in_cooldown => v.cooldown_remaining = denied.reason.a]_vars

\* GetActionStats has reported, during a cooldown, an hourly count smaller
\* than the daily count, on a history that holds an entry 24h old
C19_Witness ==
  /\ ret.op = "GetActionStats"
  /\ ret.kind = "comment"
  /\ ret.value.in_cooldown
  /\ ret.value.hourly_count > 0
  /\ ret.value.hourly_count < ret.value.daily_count
  /\ ret.value.daily_count < Len(actionHistory["comment"])

\* C20: every call of a public operation returns; none panics
C20_Original == ~ret.panic

\* C11: with workers that check and record in two calls, two of them can both
\* be allowed before either records, and the hourly cap is then exceeded; the
\* count in the trailing hour stays within the cap plus the number of the
\* other workers
C11_RaceExceedsCap ==
  \A k \in Configured :
    InWindow(actionHistory[k], Hour, now)
      <= limits[k].HourlyMax + Cardinality(Threads) - 1

\* the trailing hour holds more entries than the hourly cap, and the two
\* newest are closer than the minimum interval
C11_Witness ==
  LET h == actionHistory[focus]
  IN /\ focus \in Configured
     /\ InWindow(h, Hour, now) > limits[focus].HourlyMax
     /\ h[Len(h)] - h[Len(h) - 1] < limits[focus].MinInterval
     /\ \A w \in Threads : pc[w].phase = "idle"

\* a history whose entries do not decrease
Sorted(history) ==
  \A i \in 1..Len(history) : \A j \in i..Len(history) :
    history[i] <= history[j]

\* thread w runs the body of its call in this step
Leaves(w) == Inside(w) /\ pc'[w].phase = "idle"

\* C12: with threads that call RecordAction concurrently, every history is
\* in non-decreasing order: a record appends, at the end, the instant at
\* which its thread holds the lock
C12_HistoriesOrdered ==
  [][/\ \A k \in Configured : Sorted(actionHistory'[k])
     /\ \A w \in Threads :
          (Leaves(w) /\ pc[w].op = "RecordAction" /\ Exists(pc[w].kind)) =>
            actionHistory'[pc[w].kind]
              = Append(actionHistory[pc[w].kind], now)]_vars

\* a thread holds the lock for a RecordAction that it called before the
\* newest entry of its action type was recorded by the other thread
C12_Witness ==
  \E w \in Threads :
    /\ Inside(w)
    /\ pc[w].op = "RecordAction"
    /\ Exists(pc[w].kind)
    /\ LET h == actionHistory[pc[w].kind]
       IN h # <<>> /\ pc[w].at < h[Len(h)]

\* the operations that take the read lock
ReadLocked ==
  {"GetWaitTime", "GetActionStats", "IsInCooldown", "GetCooldownRemaining"}

\* C13: the histories, the cooldown end and the counter change only in the
\* step of a thread that holds the lock alone; two threads are inside the
\* lock together only for operations that take the read lock, and these
\* change nothing
C13_LockDiscipline ==
  [][/\ \A w \in Threads : \A v \in Threads \ {w} :
          (Inside(w) /\ Inside(v)) =>
            (pc[w].op \in ReadLocked /\ pc[v].op \in ReadLocked)
     /\ rlVars' # rlVars =>
          \E w \in Threads :
            /\ Leaves(w)
            /\ pc[w].op \notin ReadLocked
            /\ \A v \in Threads \ {w} : ~Inside(v)
     /\ \A w \in Threads :
          (Leaves(w) /\ pc[w].op \in ReadLocked) => rlVars' = rlVars
     /\ \A w \in Threads :
          (pc[w].phase = "idle" /\ pc'[w].phase = "blocked") =>
            rlVars' = rlVars]_vars

\* one thread holds the lock for a RecordAction while the other, which
\* called GetActionStats, waits for it
C13_Witness ==
  \E w \in Threads : \E v \in Threads \ {w} :
    /\ Inside(w)
    /\ pc[w].op = "RecordAction"
    /\ pc[v].phase = "blocked"
    /\ pc[v].op = "GetActionStats"
    /\ TotalEntries > 0
\* C25: with workers that each record only after their own CanPerformAction
\* allowed, the count in the trailing hour never exceeds the hourly cap by
\* more than the number of workers
C25_OvershootBounded ==
  \A k \in Configured :
    InWindow(actionHistory[k], Hour, now) - limits[k].HourlyMax
      <= Cardinality(Threads)

\* a worker has just recorded on a permit that it got before the cap was
\* filled, and the trailing hour now holds more entries than the cap
C25_Witness ==
  /\ focus \in Configured
  /\ ret.op = "RecordAction"
  /\ runEnd = now
  /\ InWindow(actionHistory[focus], Hour, now) > limits[focus].HourlyMax
  /\ nRecords = Len(actionHistory[focus])

\* the instant from which nothing can deny action type k if no further
\* action is recorded: the cooldown has ended and the newest entry has left
\* the 24h window
Horizon(k) ==
  LET h == actionHistory[k]
  IN Larger(cooldownUntil, IF h = <<>> THEN 0 ELSE h[Len(h)] + Day)

\* the instants at which the answer for k is probed when no further action
\* is recorded: those at which a check changes its answer, and the horizon
Later(k) ==
  Edges(k) \cup {t \in {Horizon(k), Horizon(k) + 1, Horizon(k) + Day} :
                   t >= now}

\* C26: if no further action is recorded, CanPerformAction of an action type
\* with a limit, once it allows, allows at every later instant, and it allows
\* at the latest when the cooldown has ended and every entry has left the 1h
\* and the 24h window
C26_NoLockout ==
  \A k \in ActionTypes \cap Configured :
    LET answer == {<<t, CanResult(k, t).allowed>> : t \in Later(k)}
    IN \A p \in answer :
         /\ p[1] >= Horizon(k) => p[2]
         /\ p[2] => \A q \in answer : q[1] >= p[1] => q[2]

\* the disciplined caller has filled the daily cap and is in a cooldown, so
\* that its action is denied now and allowed from the horizon on
C26_Witness ==
  /\ focus \in Configured
  /\ InWindow(actionHistory[focus], Day, now) = limits[focus].DailyMax
  /\ now < cooldownUntil
  /\ CanResult(focus, cooldownUntil).reason.text = DailyText
  /\ CanResult(focus, Horizon(focus)).allowed
\* C27 as stated: RecordAction never moves the end of the cooldown to an
\* earlier instant
C27_Original ==
  [][ret'.op = "RecordAction" => cooldownUntil' >= cooldownUntil]_vars

\* C27, amended: RecordAction leaves the end of the cooldown where it is or,
\* when the call brings the consecutive counter to the CooldownAfter of its
\* action type, sets it to now + CooldownDuration of that type, which is
\* earlier only if a cooldown that ends later is active; a call made while no
\* cooldown is active never moves it earlier, and besides RecordAction only
\* ResetCooldown lowers it
C27_CooldownMoves ==
  [][(ret'.op = "RecordAction" =>
        /\ \/ cooldownUntil' = cooldownUntil
           \/ /\ ret'.kind \in Configured
              /\ CooldownTriggered(consecutiveActions + 1, limits[ret'.kind])
              /\ cooldownUntil' = now + limits[ret'.kind].CooldownDuration
              /\ cooldownUntil' > now
              /\ consecutiveActions' = 0
        /\ ~InCooldown(now, cooldownUntil) => cooldownUntil' >= cooldownUntil)
     /\ (cooldownUntil' < cooldownUntil =>
           ret'.op \in {"RecordAction", "ResetCooldown"})]_vars

\* a cooldown of comments was active and the fifth connection request in a
\* row, recorded at the instant of the last comment, has replaced it by the
\* shorter cooldown of connection requests
C27_Witness ==
  LET h == actionHistory["comment"]
  IN /\ ret.op = "RecordAction"
     /\ ret.kind = "connection_request"
     /\ consecutiveActions = 0
     /\ runEnd = now
     /\ Len(run) = limits["comment"].CooldownAfter
                     + limits["connection_request"].CooldownAfter
     /\ h # <<>>
     /\ h[Len(h)] = now
     /\ cooldownUntil = now + limits["connection_request"].CooldownDuration
     /\ cooldownUntil < now + limits["comment"].CooldownDuration
\* C28 as stated: once GetWaitTime of an action type with a limit has
\* returned, if no further action is recorded, CanPerformAction allows that
\* action type after the returned duration (at once if the duration is zero)
C28_Original ==
  (ret.op = "GetWaitTime" /\ ret.kind \in Configured) =>
    CanResult(ret.kind, now + ret.value).allowed
\* what the limiter that never removes an entry holds for action type k
ReferenceHistory(k) == IF k \in Configured THEN reference[k] ELSE <<>>

\* the answers of that limiter: the same decisions, counts and waits, taken
\* on its own histories
ReferenceCan(k) == Decide(k, ReferenceHistory(k), cooldownUntil, now)

ReferenceWait(k) == GetWaitTimeAt(k, reference, cooldownUntil, now)

ReferenceStats(k) ==
  LET hourlyCount == countActionsInWindow(reference[k], Hour, now)
      dailyCount == countActionsInWindow(reference[k], Day, now)
  IN [action_type |-> k,
      hourly_count |-> hourlyCount,
      hourly_limit |-> limits[k].HourlyMax,
      hourly_remaining |-> limits[k].HourlyMax - hourlyCount,
      daily_count |-> dailyCount,
      daily_limit |-> limits[k].DailyMax,
      daily_remaining |-> limits[k].DailyMax - dailyCount,
      in_cooldown |-> Before(now, cooldownUntil),
      cooldown_remaining |-> RemainingCooldown(now, cooldownUntil)]

\* the actual histories are the reference histories without some of the
\* entries that have left the 24h window
Related ==
  \A k \in Configured :
    LET r == reference[k]
        h == actionHistory[k]
        n == Len(r) - Len(h)
    IN /\ n >= 0
       /\ h = SubSeq(r, n + 1, Len(r))
       /\ \A i \in 1..n : ~After(r[i], now - Day)

\* C29: run on the same calls at the same instants, the limiter that prunes
\* and the one that never removes an entry return the same from every
\* CanPerformAction, GetWaitTime and GetActionStats, and their histories
\* differ only by entries that have left the 24h window
C29_PruningInvisible ==
  [][LET k == ret'.kind
     IN /\ ret'.op = "CanPerformAction" =>
             /\ ret'.allowed = ReferenceCan(k).allowed
             /\ ret'.reason = ReferenceCan(k).reason
        /\ ret'.op = "GetWaitTime" => ret'.value = ReferenceWait(k)
        /\ (ret'.op = "GetActionStats" /\ k \in Configured) =>
             ret'.value = ReferenceStats(k)
        /\ Related'
        /\ \A j \in Configured : limits[j].MinInterval <= Day]_vars

\* CanPerformAction has just returned after dropping entries that the
\* reference limiter still holds, younger entries being left in both
C29_Witness ==
  /\ pace = "paired"
  /\ ret.op = "CanPerformAction"
  /\ ret.kind \in Configured
  /\ actionHistory[ret.kind] # <<>>
  /\ Len(reference[ret.kind]) > Len(actionHistory[ret.kind])
\* the three bands in which IsBreakTime may answer yes
InBand(t) ==
  LET mins == HourOf(t) * 60 + MinuteOf(t)
  IN \/ mins >= 12 * 60 /\ mins <= 13 * 60 + 29
     \/ mins >= 10 * 60 /\ mins <= 10 * 60 + 14
     \/ mins >= 15 * 60 /\ mins <= 15 * 60 + 14

\* C21: whatever the random draw, IsBreakTime returns false at a local time
\* outside the bands 12:00-13:29, 10:00-10:14 and 15:00-15:14; inside a band
\* there is a draw for which it returns true and one for which it returns
\* false
C21_BreakBands ==
  /\ (ret.op = "IsBreakTime" /\ ret.value.break) => InBand(now)
  /\ InBand(now) =>
       /\ \E d \in Draws : IsBreakTimeAt(HourOf(now), MinuteOf(now), d)
       /\ \E d \in Draws : ~IsBreakTimeAt(HourOf(now), MinuteOf(now), d)

\* IsBreakTime has answered no in the first minute after the morning band, on
\* the draw that is most in favour of a break
C21_Witness ==
  /\ ret.op = "IsBreakTime"
  /\ HourOf(now) = 10
  /\ MinuteOf(now) = 15
  /\ ret.value.draw = 0
  /\ ~ret.value.break

\* C30 as stated: ExponentialBackoff returns without a fault a duration
\* between the smaller of baseDelay * 2^attempt and maxDelay, and maxDelay,
\* and the delay before the jitter does not decrease with the attempt
C30_Original ==
  ret.op = "ExponentialBackoff" =>
    LET v == ret.value
        exact == v.baseDelay * Pow2(v.attempt)
    IN /\ ~ret.panic
       /\ v.delay >= IF exact < v.maxDelay THEN exact ELSE v.maxDelay
       /\ v.delay <= v.maxDelay
       /\ v.attempt > 0 =>
            BackoffDelay(v.attempt - 1, v.baseDelay, v.maxDelay)
              <= BackoffDelay(v.attempt, v.baseDelay, v.maxDelay)
\* startHour:00 of the first weekday on which the business window begins
\* after the instant t
FirstStart(t, startHour) ==
  LET Starts == {d * Day + startHour * Hour : d \in 0..13}
      Open == {u \in Starts : WeekdayOf(u) \notin {Saturday, Sunday} /\ u > t}
  IN CHOOSE u \in Open : \A v \in Open : u <= v

\* C23 as stated: called outside business hours, WaitForBusinessHours goes on
\* to return, business hours hold when it returns, and it returns no later
\* than startHour:00 of the first weekday whose window begins after the call
C23_Original ==
  /\ (waiter.phase = "looping"
        /\ ~IsBusinessHoursAt(now, waiter.startHour, waiter.endHour)) =>
       /\ NextStart(now, waiter.startHour, waiter.endHour) > now
       /\ Len(waiter.sleeps) < 7
  /\ (waiter.phase = "returned" /\ waiter.sleeps # <<>>) =>
       /\ IsBusinessHoursAt(now, waiter.startHour, waiter.endHour)
       /\ now <= FirstStart(waiter.calledAt, waiter.startHour)
\* C22 as stated: in a run of the program with business_hours_only, no
\* connection request is sent at an instant that is outside business hours
C22_Original ==
  \A i \in DOMAIN requests :
    requests[i].gated =>
      IsBusinessHoursAt(requests[i].at, WorkStartHour, WorkEndHour)

\* C24 as stated: the connection requests sent on one date, over all runs of
\* SendConnectionRequests and whether or not each was saved, number at most
\* MaxConnectionsPerDay, and none goes to a profile URL that the ledger held
C24_Original ==
  /\ \A i \in DOMAIN requests :
       Cardinality({j \in DOMAIN requests :
                      DateOf(requests[j].at) = DateOf(requests[i].at)})
         <= MaxConnectionsPerDay
  /\ \A i \in DOMAIN requests : ~requests[i].recorded
====
